---- MODULE Spec2Model ----
(***************************************************************************)
(* Model of game/fix_index.py: a one-shot script that reads index.html as  *)
(* a list of lines, locates four marker lines, moves the "orphaned" block  *)
(* under a fixed header and writes the result back to the same path.       *)
(*                                                                         *)
(* A line of text is modelled by where it came from (a position of the     *)
(* initial document, or a position of the literal header) and by the set   *)
(* of marker strings that occur in it as substrings.  Indices are the      *)
(* 0-based indices of the Python code; -1 is its "not found" sentinel.     *)
(***************************************************************************)
EXTENDS Integers, Sequences, FiniteSets, TLC

\* ------------------------------------------------------------------ bounds
MaxLen == 4
MaxOcc == 5
MaxRuns == 2

\* ------------------------------------------------------- marker literals
placeholder_start_marker == "    <!-- Loading Screen (New) -->"
placeholder_end_marker == "    <!-- WRAPPER FOR CRT ANIMATION - INITIALLY HIDDEN (Screen Off) -->"
orphaned_start_marker == "            <!-- Top Left Info -->"
orphaned_end_marker == "        <!-- Gameplay Screen (Updated with User's HUD) -->"

Markers ==
    {placeholder_start_marker, placeholder_end_marker,
     orphaned_start_marker, orphaned_end_marker}

\* ------------------------------------------------------------------ lines
\* A line of the initial document: its 0-based position and the markers
\* that occur in its text.
DocLine(n, ms) == [src |-> "doc", n |-> n, has |-> ms, part |-> "whole"]

\* A line of the literal header list: its 0-based position in the list.
HeaderLine(n, ms) == [src |-> "header", n |-> n, has |-> ms, part |-> "whole"]

\* `marker in line`
Contains(marker, line) == marker \in line.has

\* The header without its leading comment line carrying the marker text.
header_unmarked ==
    << HeaderLine(0, {}), HeaderLine(1, {}), HeaderLine(2, {}),
       HeaderLine(3, {}), HeaderLine(4, {}), HeaderLine(5, {}) >>

\* header = [ '    <!-- Loading Screen (New) -->\n', '    <div id=...\n',
\*            '        class=...>\n', '        <!-- Background elements -->\n',
\*            '        <!-- Background elements (Moved to global) -->\n', '\n' ]
\* Only the first of the six contains a marker: placeholder_start_marker.
header ==
    << HeaderLine(0, {placeholder_start_marker}), HeaderLine(1, {}),
       HeaderLine(2, {}), HeaderLine(3, {}), HeaderLine(4, {}),
       HeaderLine(5, {}) >>

\* --------------------------------------------------------- Python slicing
\* Index normalisation of a slice bound: negative bounds count from the
\* end, and the result is clamped to 0..len.
PyClamp(k, len) ==
    LET j == IF k < 0 THEN k + len ELSE k
    IN  IF j < 0 THEN 0 ELSE IF j > len THEN len ELSE j

\* s[lo:hi]
PySlice(s, lo, hi) ==
    LET a == PyClamp(lo, Len(s))
        b == PyClamp(hi, Len(s))
    IN  IF a >= b THEN << >> ELSE SubSeq(s, a + 1, b)

\* ------------------------------------------------------ input documents
RECURSIVE Occurrences(_, _)
Occurrences(f, n) ==
    IF n = 0 THEN 0 ELSE Cardinality(f[n]) + Occurrences(f, n - 1)

\* The document of n lines whose k-th line contains the markers f[k].
Doc(n, f) == [k \in 1..n |-> DocLine(k - 1, f[k])]

\* The 20-line fixture: markers on lines 2, 5, 10 and 14.
Fixture ==
    [k \in 1..20 |->
        DocLine(k - 1,
                IF k - 1 = 2 THEN {placeholder_start_marker}
                ELSE IF k - 1 = 5 THEN {placeholder_end_marker}
                ELSE IF k - 1 = 10 THEN {orphaned_start_marker}
                ELSE IF k - 1 = 14 THEN {orphaned_end_marker}
                ELSE {})]

\* ------------------------------------------------------------------ state
VARIABLES
    file,               \* content of index.html on disk
    lines,              \* lines = f.readlines()
    i,                  \* loop variable of `for i, line in enumerate(lines)`
    placeholder_start,
    placeholder_end,
    orphaned_start,
    orphaned_end,
    new_lines,
    pc,                 \* position of the script
    exit_status,        \* -1 while running, else the process exit status
    io,                 \* the open() calls of this run, in order: "r", "w"
    run,                \* number of the current invocation
    before,             \* content of the file when this invocation started
    prev                \* outcome of the previous invocation

vars ==
    << file, lines, i, placeholder_start, placeholder_end, orphaned_start,
       orphaned_end, new_lines, pc, exit_status, io, run, before, prev >>

NoPrev ==
    [ran |-> FALSE, pc |-> "Init", before |-> << >>,
     placeholder_start |-> -1, placeholder_end |-> -1,
     orphaned_start |-> -1, orphaned_end |-> -1]

\* The script starts on any document of at most MaxLen lines in which
\* markers occur at most MaxOcc times in total (a line may contain several
\* markers), or on the fixture.
Init ==
    /\ \/ \E n \in 0..MaxLen : \E f \in [1..n -> SUBSET Markers] :
             /\ Occurrences(f, n) <= MaxOcc
             /\ file = Doc(n, f)
       \/ file = Fixture
    /\ lines = << >>
    /\ i = 0
    /\ placeholder_start = -1
    /\ placeholder_end = -1
    /\ orphaned_start = -1
    /\ orphaned_end = -1
    /\ new_lines = << >>
    /\ pc = "Init"
    /\ exit_status = -1
    /\ io = << >>
    /\ run = 1
    /\ before = file
    /\ prev = NoPrev

\* ------------------------------------------------------------- operations
\* with open(file_path, 'r') as f: lines = f.readlines(); indices = -1
\* readlines() returns the lines that writelines() concatenated: only the
\* last line of a document may lack its newline, and the script keeps the
\* last line last (orphaned_end <= len - 1, so part3 ends with it), hence
\* no two lines are ever joined by a write followed by a read.
Read ==
    /\ pc = "Init"
    /\ lines' = file
    /\ i' = 0
    /\ placeholder_start' = -1
    /\ placeholder_end' = -1
    /\ orphaned_start' = -1
    /\ orphaned_end' = -1
    /\ io' = Append(io, "r")
    /\ pc' = "Locate"
    /\ UNCHANGED << file, new_lines, exit_status, run, before, prev >>

\* Mutant: the guard `cur == -1` is dropped, so the last match wins.
FirstHitLast(cur, marker, k, line) ==
    IF Contains(marker, line) THEN k ELSE cur

\* if cur == -1 and marker in line: cur = k
FirstHit(cur, marker, k, line) ==
    IF cur = -1 /\ Contains(marker, line) THEN k ELSE cur

\* One iteration of the scanning loop.
LocateStep ==
    /\ pc = "Locate"
    /\ i < Len(lines)
    /\ LET line == lines[i + 1]
       IN  /\ placeholder_start' = FirstHit(placeholder_start, placeholder_start_marker, i, line)
           /\ placeholder_end' = FirstHit(placeholder_end, placeholder_end_marker, i, line)
           /\ orphaned_start' = FirstHit(orphaned_start, orphaned_start_marker, i, line)
           /\ orphaned_end' = FirstHit(orphaned_end, orphaned_end_marker, i, line)
    /\ i' = i + 1
    /\ UNCHANGED << file, lines, new_lines, pc, exit_status, io, run, before, prev >>

\* Mutant: orphaned_end is not checked.
MarkerMissingThree(ps, pe, os, oe) ==
    ps = -1 \/ pe = -1 \/ os = -1

\* Mutant: `and` instead of `or`.
MarkerMissingAll(ps, pe, os, oe) ==
    ps = -1 /\ pe = -1 /\ os = -1 /\ oe = -1

\* Mutant: the order of the indices is validated too.
MarkerMissingOrOutOfOrder(ps, pe, os, oe) ==
    \/ ps = -1 \/ pe = -1 \/ os = -1 \/ oe = -1
    \/ ~(ps <= pe /\ pe <= os /\ os <= oe)

\* if placeholder_start == -1 or placeholder_end == -1 or ... == -1
MarkerMissing(ps, pe, os, oe) ==
    ps = -1 \/ pe = -1 \/ os = -1 \/ oe = -1

\* print("Error: Could not find all markers."); exit(1)
Abort ==
    /\ pc = "Locate"
    /\ i = Len(lines)
    /\ MarkerMissing(placeholder_start, placeholder_end, orphaned_start, orphaned_end)
    /\ pc' = "Aborted"
    /\ exit_status' = 1
    /\ UNCHANGED << file, lines, i, placeholder_start, placeholder_end,
                    orphaned_start, orphaned_end, new_lines, io, run, before, prev >>

\* orphaned_content = lines[orphaned_start:orphaned_end]
orphaned_content(ls, os, oe) == PySlice(ls, os, oe)

\* Mutant: part1 runs up to placeholder_end, keeping the placeholder block.
part1KeepPlaceholder(ls, ps, pe) == PySlice(ls, 0, pe)

\* part1 = lines[:placeholder_start]
part1(ls, ps, pe) == PySlice(ls, 0, ps)

\* part2 = lines[placeholder_end:orphaned_start]
part2(ls, pe, os) == PySlice(ls, pe, os)

\* Mutant: off by one, the orphaned_end marker line is dropped.
part3SkipFirst(ls, oe) == PySlice(ls, oe + 1, Len(ls))

\* part3 = lines[orphaned_end:]
part3(ls, oe) == PySlice(ls, oe, Len(ls))

\* Mutant: the between-block is put before the orphaned content.
NewLinesSwapped(ls, ps, pe, os, oe) ==
    part1(ls, ps, pe) \o header \o part2(ls, pe, os)
        \o orphaned_content(ls, os, oe) \o part3(ls, oe)

\* new_lines = part1 + header + orphaned_content + part2 + part3
NewLines(ls, ps, pe, os, oe) ==
    part1(ls, ps, pe) \o header \o orphaned_content(ls, os, oe)
        \o part2(ls, pe, os) \o part3(ls, oe)

\* All markers were found: extract, slice and reassemble in memory.
Reassemble ==
    /\ pc = "Locate"
    /\ i = Len(lines)
    /\ ~MarkerMissing(placeholder_start, placeholder_end, orphaned_start, orphaned_end)
    /\ new_lines' = NewLines(lines, placeholder_start, placeholder_end,
                             orphaned_start, orphaned_end)
    /\ pc' = "Write"
    /\ UNCHANGED << file, lines, i, placeholder_start, placeholder_end,
                    orphaned_start, orphaned_end, exit_status, io, run, before, prev >>

\* open(file_path, 'w'): the file is truncated when it is opened.
OpenWrite ==
    /\ pc = "Write"
    /\ file' = << >>
    /\ io' = Append(io, "w")
    /\ pc' = "Writing"
    /\ UNCHANGED << lines, i, placeholder_start, placeholder_end, orphaned_start,
                    orphaned_end, new_lines, exit_status, run, before, prev >>

\* f.writelines(new_lines); close; print("Successfully updated"); exit 0
WriteLines ==
    /\ pc = "Writing"
    /\ file' = new_lines
    /\ pc' = "Done"
    /\ exit_status' = 0
    /\ UNCHANGED << lines, i, placeholder_start, placeholder_end, orphaned_start,
                    orphaned_end, new_lines, io, run, before, prev >>

\* A line whose text has a non-empty proper prefix: every line but the
\* header's last one, which is the single character '\n'.
Cuttable(line) == ~(line.src = "header" /\ line.n = Len(header) - 1)

\* A non-empty proper prefix of the text of line (at most the line without
\* its newline), in which the markers ms of the line occur.
Fragment(line, ms) == [src |-> line.src, n |-> line.n, has |-> ms, part |-> "cut"]

\* What a write of ls that stops early can leave in the file.  The text is
\* written as bytes, so the cut falls anywhere: after k whole lines, or
\* inside the next line, leaving a fragment of it.
PartialWrites(ls) ==
    { SubSeq(ls, 1, k) : k \in 0..(Len(ls) - 1) }
      \cup UNION { { Append(SubSeq(ls, 1, k), Fragment(ls[k + 1], ms)) :
                       ms \in SUBSET ls[k + 1].has } :
                   k \in { j \in 0..(Len(ls) - 1) : Cuttable(ls[j + 1]) } }

\* open(file_path, 'w') itself raises (read-only or immutable file): the
\* file is not opened and keeps its content, and the uncaught exception
\* ends the process with status 1.
OpenWriteFault ==
    /\ pc = "Write"
    /\ pc' = "Fault"
    /\ exit_status' = 1
    /\ UNCHANGED << file, lines, i, placeholder_start, placeholder_end,
                    orphaned_start, orphaned_end, new_lines, io, run, before, prev >>

\* Writing new_lines fails (disk full, file size limit, device error) in
\* f.writelines or when the with-block closes and flushes the file, after
\* the file was truncated.  A write that stops early leaves a leading part
\* of the text; an error reported by the close alone leaves all of it.  In
\* both cases the uncaught exception ends the process with status 1 and
\* the final print is not reached.
WriteFault ==
    /\ pc = "Writing"
    /\ \E w \in PartialWrites(new_lines) \cup {new_lines} : file' = w
    /\ pc' = "Fault"
    /\ exit_status' = 1
    /\ UNCHANGED << lines, i, placeholder_start, placeholder_end, orphaned_start,
                    orphaned_end, new_lines, io, run, before, prev >>

Terminal == {"Done", "Aborted", "Fault"}

\* The script is started again on the file it has just written.  (After an
\* abort the file is unchanged, so a new invocation would repeat the last.)
Rerun ==
    /\ pc = "Done"
    /\ run < MaxRuns
    /\ prev' = [ran |-> TRUE, pc |-> pc, before |-> before,
                placeholder_start |-> placeholder_start,
                placeholder_end |-> placeholder_end,
                orphaned_start |-> orphaned_start,
                orphaned_end |-> orphaned_end]
    /\ run' = run + 1
    /\ before' = file
    /\ lines' = << >>
    /\ i' = 0
    /\ placeholder_start' = -1
    /\ placeholder_end' = -1
    /\ orphaned_start' = -1
    /\ orphaned_end' = -1
    /\ new_lines' = << >>
    /\ pc' = "Init"
    /\ exit_status' = -1
    /\ io' = << >>
    /\ UNCHANGED file

\* The steps of one invocation.
Step == Read \/ LocateStep \/ Abort \/ Reassemble \/ OpenWrite \/ WriteLines

Next == Step \/ Rerun

\* Invocations in an environment where file I/O succeeds.
Spec == Init /\ [][Next]_vars

\* The script is sequential Python: a started invocation keeps running.
LiveSpec == Spec /\ WF_vars(Step)

NextFault == Next \/ OpenWriteFault \/ WriteFault

\* Invocations in an environment where opening for writing or writing may fail.
SpecFault == Init /\ [][NextFault]_vars

\* ------------------------------------------------------ claim vocabulary
\* The 0-based index of the first line of s containing marker, -1 if none:
\* one scan for one marker, independent of the other markers.
FirstIndex(s, marker) ==
    LET hits == {k \in 1..Len(s) : marker \in s[k].has}
    IN  IF hits = {} THEN -1
        ELSE (CHOOSE k \in hits : \A h \in hits : k <= h) - 1

\* The lines of s at 0-based positions a, a+1, ..., b-1 (none when a >= b).
Region(s, a, b) ==
    [k \in 1..(IF b > a THEN b - a ELSE 0) |-> s[a + k]]

\* The scanning loop has visited every line.
ScanFinished ==
    \/ pc = "Locate" /\ i = Len(lines)
    \/ pc \in {"Write", "Writing", "Done", "Aborted", "Fault"}

AllFound ==
    /\ placeholder_start # -1
    /\ placeholder_end # -1
    /\ orphaned_start # -1
    /\ orphaned_end # -1

\* Some marker matches no line of the document this invocation started on.
SomeMarkerAbsent ==
    \E m \in Markers : \A k \in 1..Len(before) : ~Contains(m, before[k])

Opened(mode) == \E k \in 1..Len(io) : io[k] = mode

\* Number of positions of s holding the line x.
CountOf(s, x) == Cardinality({k \in 1..Len(s) : s[k] = x})

\* C1: when some marker matches no line of the document, the invocation
\* never opens the file for writing, the file keeps the content it had at
\* the start, the invocation can only end in Aborted with exit status 1,
\* and it does end there (it is not left scanning for ever).
C1_Safe ==
    SomeMarkerAbsent =>
        /\ ~Opened("w")
        /\ file = before
        /\ pc \in {"Init", "Locate", "Aborted"}
        /\ exit_status \in {-1, 1}
        /\ (exit_status = 1 <=> pc = "Aborted")

C1_AbortLeavesFileUntouched ==
    /\ []C1_Safe
    /\ []<>(SomeMarkerAbsent => (pc = "Aborted" /\ file = before))

\* Witness: a document with some but not all markers was scanned and the
\* invocation aborted.
C1_Witness ==
    /\ pc = "Aborted"
    /\ exit_status = 1
    /\ SomeMarkerAbsent
    /\ placeholder_start # -1
    /\ orphaned_start # -1
    /\ file = before
    /\ Len(before) >= 3

\* C2: when all four markers are found, the sequence written is
\* lines[0:ps] + header + lines[os:oe] + lines[pe:os] + lines[oe:end]; for
\* the 20-line fixture the indices are 2, 5, 10, 14 and the output is
\* lines[0:2] + header + lines[10:14] + lines[5:10] + lines[14:20].
C2_Expected ==
    Region(before, 0, placeholder_start) \o header
        \o Region(before, orphaned_start, orphaned_end)
        \o Region(before, placeholder_end, orphaned_start)
        \o Region(before, orphaned_end, Len(before))

C2_WrittenSequence ==
    /\ pc \in {"Write", "Writing"} => new_lines = C2_Expected
    /\ pc = "Done" => file = C2_Expected
    /\ (pc = "Done" /\ before = Fixture) =>
          /\ placeholder_start = 2
          /\ placeholder_end = 5
          /\ orphaned_start = 10
          /\ orphaned_end = 14
          /\ file = SubSeq(Fixture, 1, 2) \o header \o SubSeq(Fixture, 11, 14)
                      \o SubSeq(Fixture, 6, 10) \o SubSeq(Fixture, 15, 20)

\* Witness: the fixture was rewritten.
C2_Witness ==
    /\ pc = "Done"
    /\ before = Fixture
    /\ Len(file) = 23

StrictOrder ==
    /\ AllFound
    /\ placeholder_start < placeholder_end
    /\ placeholder_end <= orphaned_start
    /\ orphaned_start < orphaned_end

\* C3 as stated: with the markers in the order ps < pe <= os < oe the
\* number of lines written is the original count plus the six header lines.
C3_Original ==
    (pc = "Done" /\ StrictOrder) => Len(file) = Len(before) + Len(header)

\* C3 amended: with the markers in that order the number of lines written
\* is the original count plus six minus (pe - ps): the lines of the
\* placeholder block are dropped, so the count is below original plus six.
C3_LineCount ==
    (pc = "Done" /\ StrictOrder) =>
        /\ Len(file) = Len(before) + Len(header) - (placeholder_end - placeholder_start)
        /\ Len(file) < Len(before) + Len(header)
        /\ Len(new_lines) = Len(file)

\* Witness: a document in strict order was rewritten.
C3_Witness ==
    /\ pc = "Done"
    /\ StrictOrder
    /\ placeholder_end < orphaned_start
    /\ Len(file) = Len(before) + 5

\* The previous invocation succeeded on markers in the order
\* ps < pe <= os < oe, and this invocation runs on the file it wrote.
PrevStrictOrderDone ==
    /\ prev.ran
    /\ prev.pc = "Done"
    /\ prev.placeholder_start < prev.placeholder_end
    /\ prev.placeholder_end <= prev.orphaned_start
    /\ prev.orphaned_start < prev.orphaned_end

\* C4 as stated: the second invocation ends in Aborted and does not write.
C4_Original ==
    (PrevStrictOrderDone /\ pc \in Terminal) => (pc = "Aborted" /\ ~Opened("w"))

\* C4 amended: the second invocation finds all four markers again (the
\* header's first line carries the placeholder_start marker and the other
\* three marker lines are retained), is not aborted, and when it is Done
\* the file it wrote equals the file it read.
C4_SecondRun ==
    (PrevStrictOrderDone /\ ScanFinished) =>
        /\ AllFound
        /\ ~SomeMarkerAbsent
        /\ pc # "Aborted"
        /\ (pc = "Done" => file = before /\ Opened("w"))

\* Witness: a second invocation completed on the output of the first.
C4_Witness ==
    /\ PrevStrictOrderDone
    /\ run = 2
    /\ pc = "Done"
    /\ file = before
    /\ Opened("w")

\* C5: every invocation goes Init -> Locate -> (Aborted | Write -> Done);
\* it terminates in Done or Aborted, reads once and before any write,
\* writes at most once and only after all four markers were located, and
\* is Done only after the write.  No invocation runs for ever: the script
\* is again and again (and, the invocations being finitely many, finally
\* for good) in one of the two terminal states.
C5_Safe ==
    /\ pc \in {"Init", "Locate", "Write", "Writing", "Done", "Aborted"}
    /\ (exit_status # -1) <=> (pc \in {"Done", "Aborted"})
    /\ (pc = "Done") <=> (exit_status = 0)
    /\ io \in {<< >>, <<"r">>, <<"r", "w">>}
    /\ pc # "Init" => Opened("r")
    /\ Opened("w") => ScanFinished /\ AllFound
    /\ pc = "Done" => io = <<"r", "w">> /\ file = new_lines
    /\ pc = "Aborted" => io = <<"r">>

C5_Order ==
    <<pc, pc'>> \in
        { <<"Init", "Locate">>, <<"Locate", "Locate">>, <<"Locate", "Aborted">>,
          <<"Locate", "Write">>, <<"Write", "Writing">>, <<"Writing", "Done">>,
          <<"Done", "Init">> }

C5_Lifecycle ==
    /\ []C5_Safe
    /\ [][C5_Order]_vars
    /\ []<>(pc \in {"Done", "Aborted"})

\* Witness: an invocation read, located, wrote and is Done.
C5_Witness ==
    /\ pc = "Done"
    /\ exit_status = 0
    /\ io = <<"r", "w">>
    /\ AllFound
    /\ file = new_lines

\* C6: for each marker the loop's index is the lowest index of a line
\* containing it among the lines visited so far (-1 when none), whatever
\* the other markers do; an index once set is not changed afterwards.
C6_ScanInv ==
    LET seen == SubSeq(lines, 1, i)
    IN  /\ placeholder_start = FirstIndex(seen, placeholder_start_marker)
        /\ placeholder_end = FirstIndex(seen, placeholder_end_marker)
        /\ orphaned_start = FirstIndex(seen, orphaned_start_marker)
        /\ orphaned_end = FirstIndex(seen, orphaned_end_marker)
        /\ ScanFinished => seen = before

C6_OnceSet ==
    (pc = "Locate" /\ pc' # "Init") =>
        /\ placeholder_start # -1 => placeholder_start' = placeholder_start
        /\ placeholder_end # -1 => placeholder_end' = placeholder_end
        /\ orphaned_start # -1 => orphaned_start' = orphaned_start
        /\ orphaned_end # -1 => orphaned_end' = orphaned_end

C6_FirstMatch ==
    /\ []C6_ScanInv
    /\ [][C6_OnceSet]_vars

\* Witness: the scan finished on a document where one line matches two
\* markers and a later line matches a marker that was already found.
C6_Witness ==
    /\ pc = "Locate"
    /\ i = Len(lines)
    /\ \E k \in 1..Len(lines) : Cardinality(lines[k].has) >= 2
    /\ \E m \in Markers : \E k1, k2 \in 1..Len(lines) :
          k1 < k2 /\ Contains(m, lines[k1]) /\ Contains(m, lines[k2])

\* C7: when an invocation has ended, the file holds either the unchanged
\* original document or the complete reassembled document.
C7_NoPartialWrite ==
    pc \in Terminal => (file = before \/ file = new_lines)

\* C8: the order of the indices is not validated: once all four markers
\* are found the invocation is never aborted, whatever their order, and
\* goes on to write and finish.
C8_Safe ==
    (ScanFinished /\ AllFound) =>
        /\ pc \in {"Locate", "Write", "Writing", "Done"}
        /\ pc = "Done" => file = new_lines

C8_OrderNotValidated ==
    /\ []C8_Safe
    /\ []<>((ScanFinished /\ AllFound) => pc = "Done")

\* Witness: orphaned_start lies before placeholder_end, the invocation is
\* Done, and the written file holds some original line twice.
C8_Witness ==
    /\ pc = "Done"
    /\ run = 1
    /\ orphaned_start < placeholder_end
    /\ \E k \in 1..Len(before) : CountOf(file, before[k]) = 2

WeakOrder ==
    /\ AllFound
    /\ placeholder_start <= placeholder_end
    /\ placeholder_end <= orphaned_start
    /\ orphaned_start <= orphaned_end

\* The original position expected at 0-based output position k when the
\* indices are in order; -1 for a position of the header.
C9_SrcPos(k) ==
    LET ps == placeholder_start
        a == ps + Len(header)
        b == a + (orphaned_end - orphaned_start)
        c == b + (orphaned_start - placeholder_end)
    IN  IF k < ps THEN k
        ELSE IF k < a THEN -1
        ELSE IF k < b THEN orphaned_start + (k - a)
        ELSE IF k < c THEN placeholder_end + (k - b)
        ELSE orphaned_end + (k - c)

\* C9: with ps <= pe <= os <= oe the output holds every original position
\* outside [ps, pe) exactly once and none inside it, the header in between,
\* and its length is original + 6 - (pe - ps).
C9_Partition ==
    (pc = "Done" /\ WeakOrder) =>
        LET n == Len(before)
            out == 0..(Len(file) - 1)
        IN  /\ Len(file) = n + 6 - (placeholder_end - placeholder_start)
            /\ \A k \in out :
                  IF C9_SrcPos(k) = -1
                  THEN file[k + 1] = header[k - placeholder_start + 1]
                  ELSE /\ C9_SrcPos(k) \in 0..(n - 1)
                       /\ file[k + 1] = before[C9_SrcPos(k) + 1]
            /\ \A j \in 0..(n - 1) :
                  Cardinality({k \in out : C9_SrcPos(k) = j})
                    = IF placeholder_start <= j /\ j < placeholder_end THEN 0 ELSE 1
            /\ run = 1 =>
                  \A j \in 0..(n - 1) :
                      CountOf(file, before[j + 1])
                        = IF placeholder_start <= j /\ j < placeholder_end THEN 0 ELSE 1

\* Witness: an ordered document with a non-empty placeholder block, a
\* non-empty between-block and a non-empty orphaned block was rewritten.
C9_Witness ==
    /\ pc = "Done"
    /\ WeakOrder
    /\ placeholder_start < placeholder_end
    /\ placeholder_end < orphaned_start
    /\ orphaned_start < orphaned_end
    /\ Len(before) <= MaxLen

====
